---------------------------- MODULE Spec2Model ----------------------------
(***************************************************************************)
(* microCRM: the task lifecycle (tasks/views.py, tasks/models.py), the     *)
(* survey submission (tasks/forms.py) and the read tracking of answer      *)
(* groups (getGroupedAnswers / markAsRead).                                *)
(*                                                                         *)
(* One Task row is modelled; every request is a sequence of database       *)
(* steps (fetch the row, insert answers, save the row) that may interleave *)
(* with the steps of the requests of other users: the project sets no      *)
(* ATOMIC_REQUESTS and takes no row lock.  Model.save() without            *)
(* update_fields writes every column of the in-memory object.              *)
(***************************************************************************)
EXTENDS Integers, Sequences, FiniteSets, Bags, TLC

VARIABLES
    task,        \* the stored Task row
    req,         \* per user: the task request in flight (its position and its in-memory Task)
    answers,     \* the stored SurveyAnswer rows (a bag: equal rows differ in their id only)
    now,         \* the clock, in units of three hours
    readStatus,  \* the stored SurveyAnswerGroupReadStatus rows
    markReq,     \* per user: the markAsRead request in flight
    task0,       \* history: the Task row of the initial state
    nStarted,    \* history: number of task requests started
    nSubmitted,  \* history: number of submissions that ran to their success message
    completedBy, \* history: the user whose mark-completed request saved the task last
    markedOk,    \* history: group keys for which markAsRead has answered success
    markFailed,  \* history: group keys for which markAsRead has answered status 500
    clients,     \* the stored Client rows: id -> name
    resolved,    \* the last client resolution: its POST data and its outcome
    photoReq,    \* per user: the add-photos request in flight, or the last one's answer
    poll,        \* the stored answers to one choice question: per answer the chosen choices
    shown,       \* the statistics a page has rendered from the stored rows as they are now
    announcements, \* the stored Announcement rows, in the order of their ids
    annStatus,   \* the stored AnnouncementReadStatus rows
    annReq       \* per connection: the announcement read request in flight

vars == <<task, req, answers, now, readStatus, markReq, task0, nStarted, nSubmitted,
         completedBy, markedOk, markFailed, clients, resolved,
         photoReq, poll, shown, announcements, annStatus, annReq>>

taskVars == <<task, req, answers, task0, nStarted, nSubmitted, completedBy>>
readVars == <<readStatus, markReq, markedOk, markFailed>>
clientVars == <<clients, resolved>>
pageVars == <<poll, shown>>
annVars == <<announcements, annStatus, annReq>>

----------------------------------------------------------------------------
(* Bounds of the model *)

MaxTarget == 2       \* target_count is drawn from 0..MaxTarget
MaxRequests == 3     \* task requests (submit-response, mark-completed) started in one behaviour
MaxInFlight == 2     \* task requests in flight at the same time
NumQuestions == 2    \* questions of the survey task
StartTime == 6       \* the clock of the initial state: 18:00 UTC of day 0
MaxTime == 9         \* the clock stops here
LastCall == 14       \* the clock of the answer groups stops here: 18:00 UTC of day 1

----------------------------------------------------------------------------
(* users/models.py: Role, CustomUser *)

EMPLOYEE == "EMPLOYEE"
MODERATOR == "MODERATOR"
CLIENT == "CLIENT"

Users == {"mod", "emp1", "emp2", "cli"}
NoUser == "none"

Role(u) ==
    CASE u = "mod" -> MODERATOR
      [] u \in {"emp1", "emp2"} -> EMPLOYEE
      [] OTHER -> CLIENT

(* tasks/models.py: TaskStatus, TaskType *)

DRAFT == "DRAFT"
SENT == "SENT"
REWORK == "REWORK"
ON_CHECK == "ON_CHECK"
COMPLETED == "COMPLETED"
TaskStatus == {DRAFT, SENT, REWORK, ON_CHECK, COMPLETED}

SURVEY == "SURVEY"
EQUIPMENT_PHOTO == "EQUIPMENT_PHOTO"
SIMPLE_PHOTO == "SIMPLE_PHOTO"
TaskType == {SURVEY, EQUIPMENT_PHOTO, SIMPLE_PHOTO}

NoClient == 0
Clients == {1, 2}
Questions == 1..NumQuestions

(* the columns of Task that the requests read or write *)
Task ==
    [task_type : TaskType, status : TaskStatus, is_active : BOOLEAN,
     assigned_to : {NoUser, "emp1"}, client : {NoClient},
     target_count : 0..MaxTarget, current_count : {0}]

----------------------------------------------------------------------------
(* mutant: the employee's check forgets is_active *)
can_be_viewed_by_any_active(t, u) ==
    IF Role(u) = MODERATOR THEN TRUE
    ELSE IF Role(u) = EMPLOYEE
         THEN /\ t.status \in {SENT, REWORK, ON_CHECK}
              /\ (t.assigned_to = u \/ t.assigned_to = NoUser)
         ELSE FALSE

(* Task.can_be_viewed_by *)
can_be_viewed_by(t, u) ==
    IF Role(u) = MODERATOR THEN TRUE
    ELSE IF Role(u) = EMPLOYEE
         THEN /\ t.status \in {SENT, REWORK, ON_CHECK}
              /\ t.is_active
              /\ (t.assigned_to = u \/ t.assigned_to = NoUser)
         ELSE FALSE

(* Task.can_be_edited_by *)
can_be_edited_by(t, u) == Role(u) = MODERATOR

(* TaskListView.get_queryset: is the task in the list shown to u *)
TaskListShows(t, u) ==
    IF Role(u) = EMPLOYEE
    THEN /\ t.status \in {SENT, REWORK, ON_CHECK}
         /\ t.is_active
         /\ (t.assigned_to = u \/ t.assigned_to = NoUser)
    ELSE IF Role(u) = MODERATOR THEN TRUE
         ELSE FALSE

(* TaskDetailView.get_object: the detail page is served (no Http404) *)
TaskDetailShows(t, u) == can_be_viewed_by(t, u)

(* mutant: only the moderator's branch of the condition *)
MayCompleteModeratorOnly(t, u) == can_be_edited_by(t, u)

(* TaskDetailView.post: the condition under which the task is completed *)
MayComplete(t, u) ==
    can_be_edited_by(t, u) \/ (Role(u) = EMPLOYEE /\ t.assigned_to = u)

(* mutant: the completion forgets is_active *)
CompletedStillActive(t) == [t EXCEPT !.status = COMPLETED]

(* TaskDetailView.post, lines 100-101: the in-memory task after the edit *)
Completed(t) == [t EXCEPT !.status = COMPLETED, !.is_active = FALSE]

(* mutant: the task type is not checked *)
MaySubmitAnyType(t, u) == can_be_viewed_by(t, u)

(* SurveyResponseView.get_form_kwargs: the request is let through *)
MaySubmit(t, u) == can_be_viewed_by(t, u) /\ t.task_type = SURVEY

(* mutant: the target counts as reached only when it is exceeded *)
AfterSubmissionStrict(t) ==
    LET c == t.current_count + 1
    IN  [t EXCEPT !.current_count = c,
                  !.status = IF t.target_count > 0 /\ c > t.target_count
                                /\ t.status # COMPLETED
                             THEN ON_CHECK ELSE @]

(* mutant: a survey that reaches its target is completed at once *)
AfterSubmissionCompletes(t) ==
    LET c == t.current_count + 1
    IN  [t EXCEPT !.current_count = c,
                  !.status = IF t.target_count > 0 /\ c >= t.target_count
                             THEN COMPLETED ELSE @]

(* mutant: a survey that reaches its target is closed like a photo report *)
AfterSubmissionCloses(t) ==
    LET c == t.current_count + 1
        reached == t.target_count > 0 /\ c >= t.target_count /\ t.status # COMPLETED
    IN  [t EXCEPT !.current_count = c,
                  !.status = IF reached THEN ON_CHECK ELSE @,
                  !.is_active = IF reached THEN FALSE ELSE @]

(* SurveyResponseView.form_valid, lines 135-150: the in-memory task after a saved form *)
AfterSubmission(t) ==
    IF t.task_type \in {EQUIPMENT_PHOTO, SIMPLE_PHOTO}
    THEN [t EXCEPT !.status = ON_CHECK, !.is_active = FALSE]
    ELSE IF t.task_type = SURVEY
         THEN LET c == t.current_count + 1
              IN  [t EXCEPT !.current_count = c,
                            !.status = IF t.target_count > 0 /\ c >= t.target_count
                                          /\ t.status # COMPLETED
                                       THEN ON_CHECK ELSE @]
         ELSE t

(* Task.save(): every column of the in-memory object is written to the row *)
SavedRow(row, mem) == mem

(* mutant: the row is fetched again (refresh_from_db) before the edit *)
SubmitSavedRowRefetched(row, loaded) == AfterSubmission(row)

(* form_valid, lines 135-152: the row stored by a submission that fetched `loaded` *)
SubmitSavedRow(row, loaded) == SavedRow(row, AfterSubmission(loaded))

(* TaskDetailView.post, lines 100-102: the row stored by a completion that fetched `loaded` *)
CompleteSavedRow(row, loaded) == SavedRow(row, Completed(loaded))

----------------------------------------------------------------------------
(* SurveyResponseForm.save, lines 119-164: the client of the submission.  *)
(* The payload carries the fields selected_client_id and selected_client; *)
(* a selector is modelled by the outcome of the look-ups on it.           *)
ClientSelectors ==
    {[found |-> TRUE, client |-> 2, kind |-> "ok"]}
    \cup {[found |-> FALSE, client |-> NoClient, kind |-> k] :
             k \in {"NoClientSelected", "ClientNotFound", "AmbiguousClient"}}

(* mutant: the answers are stored although no client was found *)
ResolveClientAnyway(t, sel) ==
    [ok |-> TRUE, client |-> IF t.client # NoClient THEN t.client ELSE sel.client]

ResolveClient(t, sel) ==
    IF t.client # NoClient THEN [ok |-> TRUE, client |-> t.client]
    ELSE [ok |-> sel.found, client |-> sel.client]

(* Photos.  An answer carries the number of its SurveyAnswerPhoto rows.      *)
PhotoLimit == 10     \* the 10 of forms.py 203 and views.py 242, 278
PhotoQuestion == 1   \* the question of type PHOTO; the other questions take text
MaxFiles == 11       \* files uploaded with one submission: 0..MaxFiles
MaxAdd == 2          \* files uploaded with one add-photos request: 1..MaxAdd

Min(a, b) == IF a < b THEN a ELSE b

(* forms.py 202-203: uploaded_files[:10] *)
StoredAtSubmit(n) == Min(n, PhotoLimit)

(* mutant: survey_answer.save() inserts the answer a second time *)
NewAnswersTwice(u, c, t, n) ==
    LET b == SetToBag({[question |-> q, user |-> u, client |-> c, created_at |-> t,
                        photos |-> IF q = PhotoQuestion THEN StoredAtSubmit(n) ELSE 0] :
                       q \in Questions})
    IN  b (+) b

(* mutant: only the first question is answered *)
NewAnswersFirstOnly(u, c, t, n) ==
    SetToBag({[question |-> 1, user |-> u, client |-> c, created_at |-> t,
               photos |-> StoredAtSubmit(n)]})

(* SurveyResponseForm.save, lines 166-175: one SurveyAnswer per question *)
NewAnswers(u, c, t, n) ==
    SetToBag({[question |-> q, user |-> u, client |-> c, created_at |-> t,
               photos |-> IF q = PhotoQuestion THEN StoredAtSubmit(n) ELSE 0] :
              q \in Questions})

----------------------------------------------------------------------------
(* SurveyResponseForm.save, lines 119-164, on the stored clients.            *)
(* A name is a sequence of letters: "a" and "A" stand for an ASCII letter in *)
(* lower and upper case, "zh" and "ZH" for a Cyrillic letter in both cases.  *)

MaxNameLen == 2
Letters == {"a", "A", "zh", "ZH"}
Names == UNION {[1..n -> Letters] : n \in 1..MaxNameLen}

NoId == 0        \* selected_client_id absent or empty
MissingId == 3   \* the id of no stored client
BadId == -2      \* selected_client_id is not a number

(* the POST fields selected_client_id and selected_client *)
ClientData == [id : {NoId, BadId, MissingId} \cup Clients, name : Names \cup {<<>>}]

(* the comparison of SQLite's LIKE, to which the sqlite3 backend translates  *)
(* iexact and icontains: only the ASCII letters are compared without case    *)
LikeFold(ch) == IF ch = "A" THEN "a" ELSE ch
LikeFoldName(n) == [i \in 1..Len(n) |-> LikeFold(n[i])]

iexact(name, given) == LikeFoldName(name) = LikeFoldName(given)

icontains(name, given) ==
    \E i \in 0..(Len(name) - Len(given)) :
        LikeFoldName(SubSeq(name, i + 1, i + Len(given))) = LikeFoldName(given)

Found(c) == [kind |-> "ok", client |-> c]
Failed(kind) == [kind |-> kind, client |-> NoClient]

(* lines 131-145 and 149-162: the look-up by name *)
ClientByName(dir, given) ==
    LET exact == {c \in DOMAIN dir : iexact(dir[c], given)}
        part  == {c \in DOMAIN dir : icontains(dir[c], given)}
    IN  IF given = <<>> THEN Failed("NoClientSelected")
        ELSE IF Cardinality(exact) = 1 THEN Found(CHOOSE c \in exact : TRUE)
        ELSE IF Cardinality(exact) > 1
             THEN Failed("MultipleObjectsReturned")   \* no except clause catches it
        ELSE IF Cardinality(part) = 1 THEN Found(CHOOSE c \in part : TRUE)
        ELSE IF part = {} THEN Failed("ClientNotFound")
        ELSE Failed("AmbiguousClient")

(* lines 121-164: the client of the submission *)
FormClient(t, dir, data) ==
    IF t.client # NoClient THEN Found(t.client)
    ELSE IF data.id = NoId THEN ClientByName(dir, data.name)
    ELSE IF data.id = BadId THEN Failed("BadId")   \* int() raises ValueError
    ELSE IF data.id \in DOMAIN dir THEN Found(data.id)
    ELSE ClientByName(dir, data.name)

(* views.py 128-134: a ValueError of form.save() is shown as a message, any *)
(* other exception leaves the view                                          *)
ReportedAsMessage(out) == out.kind \in {"NoClientSelected", "ClientNotFound", "AmbiguousClient", "BadId"}

NoResolution == [data |-> [id |-> NoId, name |-> <<>>], out |-> Failed("none")]

OneDirectory == [c \in Clients |-> <<"a">>]

----------------------------------------------------------------------------
(* the payload of a POST: the form validates or not, and the client selector *)
NoPayload ==
    [valid |-> TRUE, files |-> 0,
     sel |-> [found |-> FALSE, client |-> NoClient, kind |-> "NoClientSelected"]]
AllPayloads == [valid : {TRUE}, files : {0}, sel : ClientSelectors] \cup {[NoPayload EXCEPT !.valid = FALSE]}

(* the same with one kind of unresolved client *)
Payloads == {d \in AllPayloads : d.sel.kind \in {"ok", "NoClientSelected"}}

Idle == [pc |-> "idle", kind |-> "none", task |-> <<>>, data |-> NoPayload]

InFlight == {u \in Users : req[u].pc # "idle"}

(* AddPhotosView, AddSinglePhotoView: any logged-in user may send the request *)
PhotoUsers == {"emp1", "mod"}

NoPhotoRequest == [pc |-> "idle", kind |-> "none", seen |-> 0, k |-> 0, added |-> 0]

(* markAsRead: request.user; NoUser is an anonymous request (the view asks for no login) *)
MarkCallers == {"mod", NoUser}

NoMark == [pc |-> "idle"]

(* no choice question is looked at and no statistics page has been rendered *)
NoPoll == [question_type |-> "none", answers |-> EmptyBag]
NoView == [view |-> "none"]
NoPages == poll = NoPoll /\ shown = NoView

(* no announcement is stored and no read request is in flight *)
MaxAnnInFlight == 2  \* announcement read requests in flight at the same time
Connections == 1..MaxAnnInFlight
NoAnnRequest == [pc |-> "idle"]
NoAnnouncements ==
    /\ announcements = <<>>
    /\ annStatus = {}
    /\ annReq = [c \in Connections |-> NoAnnRequest]

Init ==
    /\ task \in Task
    /\ task0 = task
    /\ req = [u \in Users |-> Idle]
    /\ answers = EmptyBag
    /\ now = StartTime
    /\ readStatus = {}
    /\ markReq = [p \in MarkCallers |-> NoMark]
    /\ nStarted = 0
    /\ nSubmitted = 0
    /\ completedBy = NoUser
    /\ markedOk = {}
    /\ markFailed = {}
    /\ clients = OneDirectory
    /\ resolved = NoResolution
    /\ photoReq = [u \in PhotoUsers |-> NoPhotoRequest]
    /\ NoPages
    /\ NoAnnouncements

(* TaskDetailView.post -> get_object: the row is fetched *)
CompleteLoad(u) ==
    /\ req[u].pc = "idle"
    /\ Cardinality(InFlight) < MaxInFlight
    /\ nStarted < MaxRequests
    /\ nStarted' = nStarted + 1
    /\ req' = [req EXCEPT ![u] = [pc |-> "loaded", kind |-> "complete", task |-> task,
                                  data |-> NoPayload]]
    /\ UNCHANGED <<task, answers, task0, nSubmitted, completedBy, now>>
    /\ UNCHANGED readVars
    /\ UNCHANGED clientVars
    /\ UNCHANGED photoReq
    /\ UNCHANGED pageVars
    /\ UNCHANGED annVars

(* TaskDetailView.post: Http404 / plain page, or the edit and task.save() *)
CompleteFinish(u) ==
    /\ req[u].pc = "loaded"
    /\ req[u].kind = "complete"
    /\ LET t == req[u].task
           done == can_be_viewed_by(t, u) /\ MayComplete(t, u)
       IN  /\ task' = IF done THEN CompleteSavedRow(task, t) ELSE task
           /\ completedBy' = IF done THEN u ELSE completedBy
    /\ req' = [req EXCEPT ![u] = Idle]
    /\ UNCHANGED <<answers, task0, nStarted, nSubmitted, now>>
    /\ UNCHANGED readVars
    /\ UNCHANGED clientVars
    /\ UNCHANGED photoReq
    /\ UNCHANGED pageVars
    /\ UNCHANGED annVars

(* SurveyResponseView.get_form_kwargs: the row is fetched *)
SubmitLoad(u, data) ==
    /\ req[u].pc = "idle"
    /\ Cardinality(InFlight) < MaxInFlight
    /\ nStarted < MaxRequests
    /\ nStarted' = nStarted + 1
    /\ req' = [req EXCEPT ![u] = [pc |-> "loaded", kind |-> "submit", task |-> task,
                                  data |-> data]]
    /\ UNCHANGED <<task, answers, task0, nSubmitted, completedBy, now>>
    /\ UNCHANGED readVars
    /\ UNCHANGED clientVars
    /\ UNCHANGED photoReq
    /\ UNCHANGED pageVars
    /\ UNCHANGED annVars

(* the outcome of form.save()'s client resolution on the selector sel *)
SelectorOutcome(t, sel) ==
    IF t.client # NoClient THEN Found(t.client) ELSE [kind |-> sel.kind, client |-> sel.client]

(* get_form_kwargs raises Http404, or the form is invalid, or form.save()  *)
(* raises ValueError (no client): the request ends and nothing is written; *)
(* otherwise form.save() inserts the answers                               *)
SubmitForm(u) ==
    /\ req[u].pc = "loaded"
    /\ req[u].kind = "submit"
    /\ LET t == req[u].task
           r == ResolveClient(t, req[u].data.sel)
       IN  /\ IF MaySubmit(t, u) /\ req[u].data.valid /\ r.ok
              THEN /\ answers' = answers (+) NewAnswers(u, r.client, now, req[u].data.files)
                   /\ req' = [req EXCEPT ![u].pc = "answered"]
              ELSE /\ answers' = answers
                   /\ req' = [req EXCEPT ![u] = Idle]
           /\ resolved' = IF MaySubmit(t, u) /\ req[u].data.valid
                          THEN [NoResolution EXCEPT !.out = SelectorOutcome(t, req[u].data.sel)]
                          ELSE resolved
    /\ UNCHANGED <<task, task0, nStarted, nSubmitted, completedBy, now>>
    /\ UNCHANGED readVars
    /\ UNCHANGED clients
    /\ UNCHANGED photoReq
    /\ UNCHANGED pageVars
    /\ UNCHANGED annVars

(* SurveyResponseView.form_valid, lines 135-154: the edit and task.save() *)
SubmitSave(u) ==
    /\ req[u].pc = "answered"
    /\ task' = SubmitSavedRow(task, req[u].task)
    /\ nSubmitted' = nSubmitted + 1
    /\ req' = [req EXCEPT ![u] = Idle]
    /\ UNCHANGED <<answers, task0, nStarted, completedBy, now>>
    /\ UNCHANGED readVars
    /\ UNCHANGED clientVars
    /\ UNCHANGED photoReq
    /\ UNCHANGED pageVars
    /\ UNCHANGED annVars

Next ==
    \/ \E u \in Users : CompleteLoad(u)
    \/ \E u \in Users : CompleteFinish(u)
    \/ \E u \in Users, data \in Payloads : SubmitLoad(u, data)
    \/ \E u \in Users : SubmitForm(u)
    \/ \E u \in Users : SubmitSave(u)

(* The requests interleave step by step *)
Spec == Init /\ [][Next]_vars

(* The requests are served one at a time: a request starts when none is in flight *)
SeqCompleteLoad(u) == InFlight = {} /\ CompleteLoad(u)
SeqSubmitLoad(u, data) == InFlight = {} /\ SubmitLoad(u, data)

NextSeq ==
    \/ \E u \in Users : SeqCompleteLoad(u)
    \/ \E u \in Users : CompleteFinish(u)
    \/ \E u \in Users, data \in AllPayloads : SeqSubmitLoad(u, data)
    \/ \E u \in Users : SubmitForm(u)
    \/ \E u \in Users : SubmitSave(u)

SpecSeq == Init /\ [][NextSeq]_vars

----------------------------------------------------------------------------
(* The client resolution alone: every directory of two clients, every POST *)

FixedClientSurvey ==
    [task_type |-> SURVEY, status |-> SENT, is_active |-> TRUE,
     assigned_to |-> NoUser, client |-> 1, target_count |-> 0, current_count |-> 0]

InitClient ==
    /\ task \in {FixedClientSurvey, [FixedClientSurvey EXCEPT !.client = NoClient]}
    /\ task0 = task
    /\ req = [u \in Users |-> Idle]
    /\ answers = EmptyBag
    /\ now = StartTime
    /\ readStatus = {}
    /\ markReq = [p \in MarkCallers |-> NoMark]
    /\ nStarted = 0
    /\ nSubmitted = 0
    /\ completedBy = NoUser
    /\ markedOk = {}
    /\ markFailed = {}
    /\ clients \in [Clients -> Names]
    /\ resolved = NoResolution
    /\ photoReq = [u \in PhotoUsers |-> NoPhotoRequest]
    /\ NoPages
    /\ NoAnnouncements

(* form.save() up to line 164 on the POST data `data` *)
Resolve(data) ==
    /\ resolved = NoResolution
    /\ resolved' = [data |-> data, out |-> FormClient(task, clients, data)]
    /\ UNCHANGED clients
    /\ UNCHANGED photoReq
    /\ UNCHANGED pageVars
    /\ UNCHANGED annVars
    /\ UNCHANGED now
    /\ UNCHANGED taskVars
    /\ UNCHANGED readVars

NextClient == \E data \in ClientData : Resolve(data)

SpecClient == InitClient /\ [][NextClient]_vars

----------------------------------------------------------------------------
(* Time.  The clock counts units of three hours from a UTC midnight.       *)

UnitsPerDay == 8     \* 24 hours
NewWindow == 8       \* timedelta(hours=24) of getGroupedAnswers
TzOffset == 1        \* TIME_ZONE = 'Europe/Moscow' is UTC+3

(* created_at.date() of an aware datetime read from the database (UTC) *)
UtcDate(t) == t \div UnitsPerDay

(* datetime.date.today() in the process's time zone, which Django sets to TIME_ZONE *)
LocalToday(t) == (t + TzOffset) \div UnitsPerDay

None == -1           \* a NULL datetime

TaskId == 1

----------------------------------------------------------------------------
(* getGroupedAnswers *)

(* line 530: the key of the group of an answer, as the parts of the string *)
GroupKey(a) == <<TaskId, a.client, a.user, UtcDate(a.created_at)>>

AnswerSet == BagToSet(answers)

GroupKeys == {GroupKey(a) : a \in AnswerSet}

RowKey(r) == <<r.task, r.client, r.user, r.date_created>>

(* lines 535-546: the look-up of the read status by the group's key *)
IsRead(k) == \E r \in readStatus : RowKey(r) = k /\ r.read_at # None

(* line 553: the created_at of the first answer of the group in -created_at order *)
GroupTimestamp(k) ==
    CHOOSE t \in {a.created_at : a \in {b \in AnswerSet : GroupKey(b) = k}} :
        \A a \in AnswerSet : GroupKey(a) = k => a.created_at <= t

(* lines 548-559: the summary of one group, called at time t *)
GroupSummary(k, t) ==
    [id |-> k,
     dateCreated |-> GroupTimestamp(k),
     isNew |-> GroupTimestamp(k) > t - NewWindow /\ ~IsRead(k),
     isRead |-> IsRead(k)]

(* the groups a call without filters returns *)
GroupedAnswers == {GroupSummary(k, now) : k \in GroupKeys}

----------------------------------------------------------------------------
(* markAsRead *)

(* the answerId values sent: the ids getGroupedAnswers hands out, a short one, none *)
AnswerIds == GroupKeys \cup {<<TaskId, 1>>, <<>>}

(* field date_created, auto_now_add=True: DateField.pre_save puts today's *)
(* date on every insert, whatever value the caller gave                     *)
PreSaveDate(given, t) == LocalToday(t)

(* the row create() builds *)
NewRow(k, t, caller) ==
    [task |-> k[1], client |-> k[2], user |-> k[3],
     date_created |-> PreSaveDate(k[4], t),
     read_at |-> t, read_by |-> caller]

(* lines 602-621: answer_id.split('_') and the get() of get_or_create *)
MarkLookup(p, id) ==
    /\ markReq[p].pc = "idle"
    /\ Len(id) >= 4
    /\ LET k == SubSeq(id, 1, 4)
       IN  markReq' = [markReq EXCEPT ![p] =
               [pc |-> "looked", key |-> k,
                found |-> \E r \in readStatus : RowKey(r) = k,
                after |-> k \in markedOk]]   \* history: a call for k had succeeded before
    /\ UNCHANGED <<readStatus, markedOk, markFailed, now>>
    /\ UNCHANGED taskVars
    /\ UNCHANGED clientVars
    /\ UNCHANGED photoReq
    /\ UNCHANGED pageVars
    /\ UNCHANGED annVars

(* lines 594-600, 635, 639: no id or too few parts: status 400, nothing written *)
MarkBadRequest(p, id) ==
    /\ markReq[p].pc = "idle"
    /\ Len(id) < 4
    /\ UNCHANGED vars

(* the unique_together constraint refuses the insert of row r *)
UniqueViolation(r) == \E x \in readStatus : RowKey(x) = RowKey(r)

(* lines 612-637: create() or the update, and the answer of the request *)
MarkWrite(p) ==
    /\ markReq[p].pc = "looked"
    /\ LET k == markReq[p].key
           r == NewRow(k, now, p)
           exists == \E x \in readStatus : RowKey(x) = k
           touch == {IF RowKey(x) = k THEN [x EXCEPT !.read_at = now, !.read_by = p]
                     ELSE x : x \in readStatus}
       IN  IF markReq[p].found
           THEN \* not created: read_status.save()
                /\ readStatus' = touch
                /\ markedOk' = markedOk \cup {k}
                /\ UNCHANGED markFailed
           ELSE IF ~UniqueViolation(r)
           THEN \* created
                /\ readStatus' = readStatus \cup {r}
                /\ markedOk' = markedOk \cup {k}
                /\ UNCHANGED markFailed
           ELSE IF exists
           THEN \* IntegrityError, the second get() finds the row: it is updated
                /\ readStatus' = touch
                /\ markedOk' = markedOk \cup {k}
                /\ UNCHANGED markFailed
           ELSE \* IntegrityError re-raised: status 500
                /\ markFailed' = markFailed \cup {k}
                /\ UNCHANGED <<readStatus, markedOk>>
    /\ markReq' = [markReq EXCEPT ![p] = NoMark]
    /\ UNCHANGED now
    /\ UNCHANGED taskVars
    /\ UNCHANGED clientVars
    /\ UNCHANGED photoReq
    /\ UNCHANGED pageVars
    /\ UNCHANGED annVars

Tick ==
    /\ now < MaxTime
    /\ now' = now + 1
    /\ UNCHANGED taskVars
    /\ UNCHANGED readVars
    /\ UNCHANGED clientVars
    /\ UNCHANGED photoReq
    /\ UNCHANGED pageVars
    /\ UNCHANGED annVars

(* The read tracking of the answer groups of one open survey task *)
ReadSubmitters == {"emp1"}

OpenSurvey ==
    [task_type |-> SURVEY, status |-> SENT, is_active |-> TRUE,
     assigned_to |-> NoUser, client |-> 1, target_count |-> 0, current_count |-> 0]

InitRead ==
    /\ task = OpenSurvey
    /\ task0 = task
    /\ req = [u \in Users |-> Idle]
    /\ answers = EmptyBag
    /\ now = StartTime
    /\ readStatus = {}
    /\ markReq = [p \in MarkCallers |-> NoMark]
    /\ nStarted = 0
    /\ nSubmitted = 0
    /\ completedBy = NoUser
    /\ markedOk = {}
    /\ markFailed = {}
    /\ clients = OneDirectory
    /\ resolved = NoResolution
    /\ photoReq = [u \in PhotoUsers |-> NoPhotoRequest]
    /\ NoPages
    /\ NoAnnouncements

NextRead ==
    \/ \E u \in ReadSubmitters : SeqSubmitLoad(u, NoPayload)
    \/ \E u \in Users : SubmitForm(u)
    \/ \E u \in Users : SubmitSave(u)
    \/ \E p \in MarkCallers, id \in AnswerIds : MarkLookup(p, id)
    \/ \E p \in MarkCallers, id \in AnswerIds : MarkBadRequest(p, id)
    \/ \E p \in MarkCallers : MarkWrite(p)
    \/ Tick

SpecRead == InitRead /\ [][NextRead]_vars

----------------------------------------------------------------------------
(* getGroupedAnswers, statement by statement *)

(* lines 520-525: the userId filter; no userId keeps every answer *)
FilterAnswers(userId) ==
    IF userId = NoUser THEN answers
    ELSE [a \in {x \in DOMAIN answers : x.user = userId} |-> answers[a]]

(* line 517: order_by('-created_at') *)
RECURSIVE OrderedByCreated(_)
OrderedByCreated(bag) ==
    IF bag = EmptyBag THEN <<>>
    ELSE LET a == CHOOSE x \in BagToSet(bag) :
                      \A y \in BagToSet(bag) : y.created_at <= x.created_at
         IN  <<a>> \o OrderedByCreated(bag (-) SetToBag({a}))

(* mutant: the key carries the instant, not the date *)
EntryKeyByInstant(a) == <<TaskId, a.client, a.user, a.created_at>>

(* line 530: the key the loop computes for an answer *)
EntryKey(a) == GroupKey(a)

(* mutant: isNew does not look at the read status *)
GroupEntryUnread(a, t) ==
    [id |-> EntryKey(a), dateCreated |-> a.created_at, answers |-> <<>>,
     isNew |-> a.created_at > t - NewWindow,
     isRead |-> IsRead(EntryKey(a))]

(* lines 532-559: the entry made for the first answer seen with a key *)
GroupEntry(a, t) ==
    [id |-> EntryKey(a), dateCreated |-> a.created_at, answers |-> <<>>,
     isNew |-> a.created_at > t - NewWindow /\ ~IsRead(EntryKey(a)),
     isRead |-> IsRead(EntryKey(a))]

(* lines 528-571: the loop; grouped_data is a dict, kept in insertion order *)
RECURSIVE GroupLoop(_, _, _)
GroupLoop(rows, grouped_data, t) ==
    IF rows = <<>> THEN grouped_data
    ELSE LET a == Head(rows)
             key == EntryKey(a)
             entered == IF \E i \in DOMAIN grouped_data : grouped_data[i].id = key
                        THEN grouped_data
                        ELSE Append(grouped_data, GroupEntry(a, t))
             i == CHOOSE j \in DOMAIN entered : entered[j].id = key
         IN  GroupLoop(Tail(rows),
                       [entered EXCEPT ![i].answers = Append(@, a.question)], t)

(* lines 574-575: result.sort(key=dateCreated, reverse=True), a stable sort *)
RECURSIVE InsertByDate(_, _)
InsertByDate(result, g) ==
    IF result = <<>> THEN <<g>>
    ELSE IF Head(result).dateCreated >= g.dateCreated
         THEN <<Head(result)>> \o InsertByDate(Tail(result), g)
         ELSE <<g>> \o result

RECURSIVE SortByDate(_)
SortByDate(result) ==
    IF result = <<>> THEN <<>>
    ELSE InsertByDate(SortByDate(SubSeq(result, 1, Len(result) - 1)),
                      result[Len(result)])

(* lines 493-583: the results of a call at the present time *)
getGroupedAnswers(userId) ==
    SortByDate(GroupLoop(OrderedByCreated(FilterAnswers(userId)), <<>>, now))

(* The answer groups of one open survey task over two days: submissions of  *)
(* two employees, markAsRead calls of the moderator, calls half a day apart *)
GroupSubmitters == {"emp1", "emp2"}

HalfDay ==
    /\ now + UnitsPerDay \div 2 <= LastCall
    /\ now' = now + UnitsPerDay \div 2
    /\ UNCHANGED taskVars
    /\ UNCHANGED readVars
    /\ UNCHANGED clientVars
    /\ UNCHANGED photoReq
    /\ UNCHANGED pageVars
    /\ UNCHANGED annVars

NextGroups ==
    \/ \E u \in GroupSubmitters : SeqSubmitLoad(u, NoPayload)
    \/ \E u \in Users : SubmitForm(u)
    \/ \E u \in Users : SubmitSave(u)
    \/ \E id \in AnswerIds : MarkLookup("mod", id)
    \/ MarkWrite("mod")
    \/ HalfDay

SpecGroups == InitRead /\ [][NextGroups]_vars

----------------------------------------------------------------------------
(* AddPhotosView and AddSinglePhotoView on the answer to the PHOTO question *)
(* of one submission                                                        *)

(* get_answer(): the stored answer the requests name *)
PhotoAnswer == CHOOSE a \in BagToSet(answers) : a.question = PhotoQuestion

(* mutant: every uploaded file is stored while a slot is left *)
AddPhotosCountAll(seen, k) == IF PhotoLimit - seen <= 0 THEN 0 ELSE k

(* views.py 241-253: the number of photos an add-photos request stores after *)
(* it has counted `seen` photos; 0 is the error message of line 245         *)
AddPhotosCount(seen, k) ==
    IF PhotoLimit - seen <= 0 THEN 0 ELSE Min(k, PhotoLimit - seen)

(* views.py 278-286: the same for an add-single-photo request *)
AddSinglePhotoCount(seen, k) == IF seen >= PhotoLimit THEN 0 ELSE 1

(* views.py 240-241, 277-278: get_answer() and answer.photos.count() *)
PhotoCheck(u, kind, k) ==
    /\ photoReq[u].pc = "idle"
    /\ answers # EmptyBag
    /\ photoReq' = [photoReq EXCEPT ![u] =
           [pc |-> "checked", kind |-> kind, seen |-> PhotoAnswer.photos, k |-> k,
            added |-> 0]]
    /\ UNCHANGED <<now, clients, resolved>>
    /\ UNCHANGED taskVars
    /\ UNCHANGED readVars
    /\ UNCHANGED pageVars
    /\ UNCHANGED annVars

(* views.py 243-259, 278-289: the error message, or the photos are created *)
PhotoWrite(u) ==
    /\ photoReq[u].pc = "checked"
    /\ LET r == photoReq[u]
           n == IF r.kind = "many" THEN AddPhotosCount(r.seen, r.k)
                ELSE AddSinglePhotoCount(r.seen, r.k)
           a == PhotoAnswer
       IN  /\ answers' = (answers (-) SetToBag({a}))
                            (+) SetToBag({[a EXCEPT !.photos = @ + n]})
           /\ photoReq' = [photoReq EXCEPT ![u] = [r EXCEPT !.pc = "idle", !.added = n]]
    /\ UNCHANGED <<task, req, task0, nStarted, nSubmitted, completedBy>>
    /\ UNCHANGED <<now, clients, resolved>>
    /\ UNCHANGED readVars
    /\ UNCHANGED pageVars
    /\ UNCHANGED annVars

(* one submission with n uploaded files for the PHOTO question *)
PhotoSubmitLoad(u, n) ==
    /\ answers = EmptyBag
    /\ SeqSubmitLoad(u, [NoPayload EXCEPT !.files = n])

NextPhoto ==
    \/ \E n \in 0..MaxFiles : PhotoSubmitLoad("emp1", n)
    \/ \E u \in Users : SubmitForm(u)
    \/ \E u \in Users : SubmitSave(u)
    \/ \E u \in PhotoUsers, k \in 1..MaxAdd : PhotoCheck(u, "many", k)
    \/ \E u \in PhotoUsers : PhotoCheck(u, "single", 1)
    \/ \E u \in PhotoUsers : PhotoWrite(u)

SpecPhoto == InitRead /\ [][NextPhoto]_vars

----------------------------------------------------------------------------
(* Python float: IEEE 754 binary64, round to nearest, ties to even.  A float *)
(* x > 0 is [m, e]: m the 53 bits of the significand, first bit 1, and x =   *)
(* 1.m[2]m[3]... * 2^e.  Only int / int, float * int, int(), round() and     *)
(* float / 2.0 are needed.                                                   *)
Precision == 53
LimbBits == 14

FloatZero == [m |-> <<>>, e |-> 0]

RECURSIVE Pow2(_)
Pow2(n) == IF n = 0 THEN 1 ELSE 2 * Pow2(n - 1)

(* the e with t * 2^e <= c < t * 2^(e+1), for 0 < c < 2^12, 0 < t < 2^12 *)
QuotientExponent(c, t) ==
    CHOOSE e \in -12..12 :
        IF e >= 0 THEN t * Pow2(e) <= c /\ c < t * Pow2(e + 1)
        ELSE t <= c * Pow2(-e) /\ c * Pow2(-e) < 2 * t

(* 2^n modulo den, by repeated squaring *)
RECURSIVE Pow2Mod(_, _)
Pow2Mod(n, den) ==
    IF n = 0 THEN 1 % den
    ELSE LET h == Pow2Mod(n \div 2, den)
         IN  (((h * h) % den) * (IF n % 2 = 1 THEN 2 ELSE 1)) % den

(* the binary digits d[1].d[2]d[3]...d[n] of num / den, for den <= num < 2 * den *)
QuotientBits(num, den, n) ==
    [i \in 1..n |->
        IF i = 1 THEN 1
        ELSE (2 * ((num * Pow2Mod(i - 2, den)) % den)) \div den]

(* bits + 1; one bit longer when every bit is 1 *)
IncBits(bits) ==
    IF \A i \in DOMAIN bits : bits[i] = 1
    THEN <<1>> \o [i \in DOMAIN bits |-> 0]
    ELSE LET j == CHOOSE i \in DOMAIN bits :
                      bits[i] = 0 /\ \A k \in (i + 1)..Len(bits) : bits[k] = 1
         IN  [i \in DOMAIN bits |-> IF i < j THEN bits[i] ELSE IF i = j THEN 1 ELSE 0]

(* the float nearest to 1.bits[2]bits[3]... * 2^e (bits[1] = 1); sticky: the *)
(* exact value has further nonzero digits                                    *)
RoundToFloat(bits, e, sticky) ==
    IF Len(bits) <= Precision
    THEN [m |-> bits \o [i \in 1..(Precision - Len(bits)) |-> 0], e |-> e]
    ELSE LET keep == SubSeq(bits, 1, Precision)
             guard == bits[Precision + 1]
             tail == sticky \/ \E i \in (Precision + 2)..Len(bits) : bits[i] = 1
             up == guard = 1 /\ (tail \/ keep[Precision] = 1)
             inc == IncBits(keep)
         IN  IF ~up THEN [m |-> keep, e |-> e]
             ELSE IF Len(inc) > Precision
                  THEN [m |-> SubSeq(inc, 1, Precision), e |-> e + 1]
                  ELSE [m |-> inc, e |-> e]

(* c / t of two ints (true division): the correctly rounded quotient *)
FloatDivInt(c, t) ==
    IF c = 0 THEN FloatZero
    ELSE LET e == QuotientExponent(c, t)
             num == IF e < 0 THEN c * Pow2(-e) ELSE c
             den == IF e < 0 THEN t ELSE t * Pow2(e)
         IN  RoundToFloat(QuotientBits(num, den, Precision + 1), e,
                          (num * Pow2Mod(Precision, den)) % den # 0)

RECURSIVE BitsToInt(_)
BitsToInt(bits) ==
    IF bits = <<>> THEN 0
    ELSE 2 * BitsToInt(SubSeq(bits, 1, Len(bits) - 1)) + bits[Len(bits)]

(* the n binary digits of v, most significant first *)
IntToBits(v, n) == [i \in 1..n |-> (v \div Pow2(n - i)) % 2]

StripZeros(bits) ==
    LET first == CHOOSE i \in DOMAIN bits : bits[i] = 1 /\ \A k \in 1..(i - 1) : bits[k] = 0
    IN  SubSeq(bits, first, Len(bits))

(* the digits of the exact product of the 53-bit integer m and 0 < k < 128,  *)
(* computed on four limbs of 14 bits                                         *)
ProductBits(m, k) ==
    LET padded == <<0, 0, 0>> \o m
        limb(i) == BitsToInt(SubSeq(padded, LimbBits * (4 - i) + 1, LimbBits * (5 - i)))
        base == Pow2(LimbBits)
        p1 == limb(1) * k
        p2 == limb(2) * k + p1 \div base
        p3 == limb(3) * k + p2 \div base
        p4 == limb(4) * k + p3 \div base
    IN  StripZeros(IntToBits(p4 \div base, 7) \o IntToBits(p4 % base, LimbBits)
                     \o IntToBits(p3 % base, LimbBits) \o IntToBits(p2 % base, LimbBits)
                     \o IntToBits(p1 % base, LimbBits))

(* x * k for a float x and an int 0 <= k < 128 (k is converted exactly) *)
FloatMulInt(x, k) ==
    IF x = FloatZero \/ k = 0 THEN FloatZero
    ELSE LET p == ProductBits(x.m, k)
         IN  RoundToFloat(p, x.e + Len(p) - Precision, FALSE)

(* int(x) for x >= 0: the fraction is cut off *)
FloatTrunc(x) ==
    IF x = FloatZero \/ x.e < 0 THEN 0 ELSE BitsToInt(SubSeq(x.m, 1, x.e + 1))

(* round(x) for 0 <= x < 2^30: the nearest int, a tie goes to the even one *)
FloatRound(x) ==
    IF x = FloatZero \/ x.e < -1 THEN 0
    ELSE LET int == FloatTrunc(x)
             half == x.m[x.e + 2]
             tail == \E i \in (x.e + 3)..Precision : x.m[i] = 1
         IN  IF half = 1 /\ (tail \/ int % 2 = 1) THEN int + 1 ELSE int

(* float(n) for an int 0 <= n < 2^30 *)
IntToFloat(n) ==
    IF n = 0 THEN FloatZero
    ELSE LET b == StripZeros(IntToBits(n, 30)) IN RoundToFloat(b, Len(b) - 1, FALSE)

(* x / 2.0 *)
FloatHalf(x) == IF x = FloatZero THEN x ELSE [x EXCEPT !.e = @ - 1]

(* is the float x a multiple of 1/2 *)
IsHalfMultiple(x) ==
    x = FloatZero \/ (x.e >= -1 /\ \A i \in (x.e + 3)..Precision : x.m[i] = 0)

(* 2 * x as an int, for a float x that is a multiple of 1/2 *)
Halves(x) == IF x = FloatZero THEN 0 ELSE BitsToInt(SubSeq(x.m, 1, x.e + 2))

----------------------------------------------------------------------------
(* Task.get_completion_percentage (shown by TaskDetailView) and the          *)
(* completion_rate of StatisticsView, for one stored task                    *)

MaxPlan == 50        \* target_count is drawn from 0..MaxPlan
MaxDone == 30        \* current_count is drawn from 0..MaxDone

(* models.py 139, views.py 384: int((current_count / target_count) * 100) *)
PercentOf(current_count, target_count) ==
    FloatTrunc(FloatMulInt(FloatDivInt(current_count, target_count), 100))

(* Task.get_completion_percentage *)
get_completion_percentage(t) ==
    IF t.task_type = SURVEY /\ t.target_count > 0
    THEN Min(100, PercentOf(t.current_count, t.target_count))
    ELSE 0

(* StatisticsView.get_context_data, lines 381-384 *)
completion_rate(t) ==
    IF t.target_count > 0
    THEN Min(100, PercentOf(t.current_count, t.target_count))
    ELSE 0

PlannedTasks ==
    [task_type : TaskType, status : {SENT}, is_active : {TRUE},
     assigned_to : {NoUser}, client : {NoClient},
     target_count : 0..MaxPlan, current_count : 0..MaxDone]

InitPercent ==
    /\ task \in PlannedTasks
    /\ task0 = task
    /\ req = [u \in Users |-> Idle]
    /\ answers = EmptyBag
    /\ now = StartTime
    /\ readStatus = {}
    /\ markReq = [p \in MarkCallers |-> NoMark]
    /\ nStarted = 0
    /\ nSubmitted = 0
    /\ completedBy = NoUser
    /\ markedOk = {}
    /\ markFailed = {}
    /\ clients = OneDirectory
    /\ resolved = NoResolution
    /\ photoReq = [u \in PhotoUsers |-> NoPhotoRequest]
    /\ NoPages
    /\ NoAnnouncements

(* TaskDetailView.get_context_data, lines 91-92: the percentage of a survey *)
TaskDetailPage(u) ==
    /\ TaskDetailShows(task, u)
    /\ task.task_type = SURVEY
    /\ shown' = [view |-> "task_detail", value |-> get_completion_percentage(task)]
    /\ UNCHANGED <<poll, now, photoReq>>
    /\ UNCHANGED taskVars
    /\ UNCHANGED readVars
    /\ UNCHANGED clientVars
    /\ UNCHANGED annVars

(* StatisticsView.get_context_data, lines 376-389: one entry per survey task *)
StatisticsPage ==
    /\ task.task_type = SURVEY
    /\ shown' = [view |-> "statistics", value |-> completion_rate(task)]
    /\ UNCHANGED <<poll, now, photoReq>>
    /\ UNCHANGED taskVars
    /\ UNCHANGED readVars
    /\ UNCHANGED clientVars
    /\ UNCHANGED annVars

NextPercent ==
    \/ \E u \in Users : TaskDetailPage(u)
    \/ StatisticsPage

SpecPercent == InitPercent /\ [][NextPercent]_vars

----------------------------------------------------------------------------
(* TaskAdmin.survey_statistics_view on one question with custom choices.     *)
(* An answer is the set of the ids of the choices it selected.               *)

MaxPollAnswers == 3  \* answers stored for the question

RADIO == "RADIO"
CHECKBOX == "CHECKBOX"
SELECT_SINGLE == "SELECT_SINGLE"
SELECT_MULTIPLE == "SELECT_MULTIPLE"
ChoiceTypes == {RADIO, CHECKBOX, SELECT_SINGLE, SELECT_MULTIPLE}

(* the ids of the question's choices, as their decimal digits *)
ChoiceIds == {<<1>>, <<2>>, <<1, 2>>}

(* forms.py 28-109: the selections the form field of the type accepts *)
Selections(question_type) ==
    CASE question_type = RADIO -> {sel \in SUBSET ChoiceIds : Cardinality(sel) = 1}
      [] question_type = SELECT_SINGLE -> {sel \in SUBSET ChoiceIds : Cardinality(sel) <= 1}
      [] OTHER -> SUBSET ChoiceIds

(* text_answer__contains=str(choice.id) on the str() of the list of ids *)
IdContains(text, id) ==
    \E i \in 1..Len(text) : i + Len(id) - 1 <= Len(text) /\ SubSeq(text, i, i + Len(id) - 1) = id

(* admin.py 136-160: is the answer counted for the choice *)
CountedFor(question_type, sel, id) ==
    IF question_type = SELECT_MULTIPLE THEN \E s \in sel : IdContains(s, id)
    ELSE id \in sel

(* the count() of the answers counted for the choice *)
ChoiceCount(p, id) ==
    BagCardinality([sel \in {x \in BagToSet(p.answers) : CountedFor(p.question_type, x, id)}
                       |-> CopiesIn(sel, p.answers)])

(* admin.py 161-163: count / total * 100, rounded to 0.5 *)
ChoicePercentage(count, total) ==
    IF total > 0
    THEN FloatHalf(IntToFloat(FloatRound(
             FloatMulInt(FloatMulInt(FloatDivInt(count, total), 100), 2))))
    ELSE FloatZero

InitStats ==
    /\ poll \in {[question_type |-> q, answers |-> EmptyBag] : q \in ChoiceTypes}
    /\ shown = NoView
    /\ task = OpenSurvey
    /\ task0 = task
    /\ req = [u \in Users |-> Idle]
    /\ answers = EmptyBag
    /\ now = StartTime
    /\ readStatus = {}
    /\ markReq = [p \in MarkCallers |-> NoMark]
    /\ nStarted = 0
    /\ nSubmitted = 0
    /\ completedBy = NoUser
    /\ markedOk = {}
    /\ markFailed = {}
    /\ clients = OneDirectory
    /\ resolved = NoResolution
    /\ photoReq = [u \in PhotoUsers |-> NoPhotoRequest]
    /\ NoAnnouncements

(* SurveyResponseForm.save, lines 171-197: the answer of one submission to   *)
(* the question; a page rendered before no longer shows the stored rows      *)
PollAnswer(sel) ==
    /\ BagCardinality(poll.answers) < MaxPollAnswers
    /\ sel \in Selections(poll.question_type)
    /\ poll' = [poll EXCEPT !.answers = @ (+) SetToBag({sel})]
    /\ shown' = NoView
    /\ UNCHANGED <<now, photoReq>>
    /\ UNCHANGED taskVars
    /\ UNCHANGED readVars
    /\ UNCHANGED clientVars
    /\ UNCHANGED annVars

(* survey_statistics_view, lines 124-168: total_answers and choice_stats *)
SurveyStatisticsPage ==
    /\ LET total == BagCardinality(poll.answers)
       IN  shown' = [view |-> "survey_statistics",
                     total_answers |-> total,
                     choice_stats |->
                        [id \in ChoiceIds |->
                            [count |-> ChoiceCount(poll, id),
                             percentage |-> ChoicePercentage(ChoiceCount(poll, id), total)]]]
    /\ UNCHANGED <<poll, now, photoReq>>
    /\ UNCHANGED taskVars
    /\ UNCHANGED readVars
    /\ UNCHANGED clientVars
    /\ UNCHANGED annVars

NextStats ==
    \/ \E sel \in SUBSET ChoiceIds : PollAnswer(sel)
    \/ SurveyStatisticsPage

SpecStats == InitStats /\ [][NextStats]_vars

----------------------------------------------------------------------------
(* announcements/models.py, announcements/views.py: the announcements, who  *)
(* sees them and the read status each user keeps of them                    *)

MaxAnnouncements == 2  \* Announcement rows stored

TARGET_AUDIENCE_CHOICES == {"ALL_EMPLOYEES", "MODERATORS", "ALL_USERS", "CUSTOM"}

(* the rows of AnnouncementRecipient an announcement is given *)
RecipientSets == {{}, {"emp1", "emp2"}}

(* the users who send read requests *)
AnnReaders == {"emp1", "emp2"}

(* request.POST.get('acknowledge', False): the values of the parameter; an  *)
(* absent parameter yields False, which is as falsy as the empty string     *)
AcknowledgeValues == {"", "true"}
Truthy(value) == value # ""

(* the fields an announcement is given in the admin *)
AnnouncementKinds ==
    [target_audience : TARGET_AUDIENCE_CHOICES \ {"CUSTOM"}, recipients : {{}},
     requires_acknowledgment : BOOLEAN]
    \cup [target_audience : {"CUSTOM"}, recipients : RecipientSets,
          requires_acknowledgment : BOOLEAN]

(* the Announcement rows after the announcements of these kinds have been   *)
(* created one after the other before the initial state: created_at is      *)
(* auto_now_add, and no two rows share the instant of their creation        *)
Posted(kinds) ==
    [i \in 1..Len(kinds) |->
        [id |-> i,
         target_audience |-> kinds[i].target_audience,
         recipients |-> kinds[i].recipients,
         created_at |-> StartTime - 1 - Len(kinds) + i,
         requires_acknowledgment |-> kinds[i].requires_acknowledgment]]

(* the AnnouncementReadStatus rows of (announcement, user): unique_together *)
StatusRows(rows, announcement, user) ==
    {r \in rows : r.announcement = announcement /\ r.user = user}

(* AnnouncementReadView.post, lines 18-26: the announcement exists and the  *)
(* get of get_or_create finds the row, or misses it                         *)
AnnReadGet(c, user, announcement, acknowledge) ==
    /\ annReq[c].pc = "idle"
    /\ \E i \in 1..Len(announcements) : announcements[i].id = announcement
    /\ LET found == StatusRows(annStatus, announcement, user)
       IN  annReq' = [annReq EXCEPT ![c] =
               IF found # {}
               THEN [pc |-> "have", user |-> user, announcement |-> announcement,
                     acknowledge |-> acknowledge, created |-> FALSE,
                     read_status |-> CHOOSE r \in found : TRUE]
               ELSE [pc |-> "missed", user |-> user, announcement |-> announcement,
                     acknowledge |-> acknowledge]]
    /\ UNCHANGED <<announcements, annStatus, now, photoReq>>
    /\ UNCHANGED pageVars
    /\ UNCHANGED taskVars
    /\ UNCHANGED readVars
    /\ UNCHANGED clientVars

(* the row get_or_create inserts: read_at is auto_now_add, acknowledged the *)
(* default of the call                                                      *)
NewReadStatus(announcement, user, t) ==
    [announcement |-> announcement, user |-> user, read_at |-> t, acknowledged |-> FALSE]

(* the create of get_or_create: the insert, or after the IntegrityError of  *)
(* unique_together the get of the row another request has inserted          *)
AnnReadCreate(c) ==
    /\ annReq[c].pc = "missed"
    /\ LET r == annReq[c]
           found == StatusRows(annStatus, r.announcement, r.user)
           row == NewReadStatus(r.announcement, r.user, now)
       IN  IF found = {}
           THEN /\ annStatus' = annStatus \cup {row}
                /\ annReq' = [annReq EXCEPT ![c] =
                       [pc |-> "have", user |-> r.user, announcement |-> r.announcement,
                        acknowledge |-> r.acknowledge, created |-> TRUE,
                        read_status |-> row]]
                /\ shown' = NoView
           ELSE /\ annReq' = [annReq EXCEPT ![c] =
                       [pc |-> "have", user |-> r.user, announcement |-> r.announcement,
                        acknowledge |-> r.acknowledge, created |-> FALSE,
                        read_status |-> CHOOSE x \in found : TRUE]]
                /\ UNCHANGED <<annStatus, shown>>
    /\ UNCHANGED <<announcements, now, poll, photoReq>>
    /\ UNCHANGED taskVars
    /\ UNCHANGED readVars
    /\ UNCHANGED clientVars

(* as if read_at were auto_now: every save stamps it                        *)
SavedReadStatusNow(read_status, t) == [read_status EXCEPT !.read_at = t]

(* read_status.save() of a fetched row: the UPDATE writes every column of   *)
(* the object in memory; auto_now_add leaves read_at alone on an update     *)
SavedReadStatus(read_status, t) == read_status

(* the rows after read_status.save() *)
SaveReadStatus(rows, read_status, t) ==
    (rows \ StatusRows(rows, read_status.announcement, read_status.user))
        \cup {SavedReadStatus(read_status, t)}

(* AnnouncementReadView.post, lines 29-53 *)
AnnReadFinish(c) ==
    /\ annReq[c].pc = "have"
    /\ LET r == annReq[c]
       IN  IF Truthy(r.acknowledge)
           THEN annStatus' = SaveReadStatus(annStatus,
                                 [r.read_status EXCEPT !.acknowledged = TRUE], now)
           ELSE IF r.created \/ r.read_status.read_at = None
                THEN annStatus' = SaveReadStatus(annStatus, r.read_status, now)
                ELSE annStatus' = annStatus
    /\ annReq' = [annReq EXCEPT ![c] = NoAnnRequest]
    /\ shown' = NoView
    /\ UNCHANGED <<announcements, now, poll, photoReq>>
    /\ UNCHANGED taskVars
    /\ UNCHANGED readVars
    /\ UNCHANGED clientVars

(* order_by('-created_at') *)
RECURSIVE NewestFirst(_)
NewestFirst(rows) ==
    IF rows = {} THEN <<>>
    ELSE LET newest == CHOOSE a \in rows : \A b \in rows : b.created_at <= a.created_at
         IN  <<newest>> \o NewestFirst(rows \ {newest})

(* lines 100-105: the queryset of the user *)
AudienceQuery(user) ==
    NewestFirst({a \in {announcements[i] : i \in 1..Len(announcements)} :
        \/ a.target_audience = "ALL_USERS"
        \/ a.target_audience = "ALL_EMPLOYEES"
        \/ a.target_audience = "MODERATORS"
        \/ a.target_audience = "CUSTOM" /\ user \in a.recipients})

(* as if the condition of the queryset were the whole test: an announcement *)
(* to the moderators is shown whatever the role                             *)
VisibleToAudience(a, user) ==
    \/ a.target_audience = "ALL_USERS"
    \/ a.target_audience = "ALL_EMPLOYEES"
    \/ a.target_audience = "MODERATORS"
    \/ a.target_audience = "CUSTOM" /\ user \in a.recipients

(* lines 110-114: should the announcement be visible to the user *)
VisibleTo(a, user) ==
    \/ a.target_audience = "ALL_USERS"
    \/ a.target_audience = "ALL_EMPLOYEES"
    \/ a.target_audience = "MODERATORS" /\ Role(user) = MODERATOR
    \/ a.target_audience = "CUSTOM" /\ user \in a.recipients

(* lines 108-115: filtered_announcements *)
FilteredAnnouncements(user) ==
    SelectSeq(AudienceQuery(user), LAMBDA a : VisibleTo(a, user))

(* lines 118-125: the announcement with the read status of the user *)
WithReadStatus(a, user) ==
    LET found == StatusRows(annStatus, a.id, user)
        read_status == CHOOSE r \in found : TRUE
    IN  [id |-> a.id,
         created_at |-> a.created_at,
         requires_acknowledgment |-> a.requires_acknowledgment,
         is_read |-> IF found # {} THEN read_status.read_at # None ELSE FALSE,
         is_acknowledged |-> IF found # {} THEN read_status.acknowledged ELSE FALSE]

(* all_user_announcements, lines 57-91: the list of the page *)
AllUserAnnouncements(user) ==
    LET filtered == FilteredAnnouncements(user)
    IN  [i \in 1..Len(filtered) |-> WithReadStatus(filtered[i], user)]

(* as if the list were sorted by the date alone *)
AnnouncementKeyByDate(x) == <<0, 0 - x.created_at>>

(* line 128: the key of sorted(): (is_acknowledged, -created_at.timestamp()) *)
AnnouncementKey(x) == <<IF x.is_acknowledged THEN 1 ELSE 0, 0 - x.created_at>>

(* sorted() compares the keys as tuples and is stable: an element goes     *)
(* behind the elements of an equal key                                     *)
RECURSIVE InsertByKey(_, _)
InsertByKey(sorted, x) ==
    LET k1 == AnnouncementKey(x)
        k2 == AnnouncementKey(Head(sorted))
    IN  IF sorted = <<>> THEN <<x>>
        ELSE IF k1[1] < k2[1] \/ (k1[1] = k2[1] /\ k1[2] < k2[2])
             THEN <<x>> \o sorted
             ELSE <<Head(sorted)>> \o InsertByKey(Tail(sorted), x)

RECURSIVE SortedByKey(_)
SortedByKey(list) ==
    IF list = <<>> THEN <<>>
    ELSE InsertByKey(SortedByKey(SubSeq(list, 1, Len(list) - 1)), list[Len(list)])

(* get_user_announcements, lines 95-130 *)
get_user_announcements(user) == SortedByKey(AllUserAnnouncements(user))

(* latest_announcement, lines 177-213: the first visible one, or none *)
latest_announcement(user) ==
    LET filtered == FilteredAnnouncements(user)
    IN  IF filtered = <<>> THEN <<>> ELSE <<WithReadStatus(filtered[1], user)>>

(* the page all_user_announcements renders *)
AllAnnouncementsPage(user) ==
    /\ shown' = [view |-> "all", user |-> user, announcements |-> AllUserAnnouncements(user)]
    /\ UNCHANGED <<poll, now, photoReq>>
    /\ UNCHANGED annVars
    /\ UNCHANGED taskVars
    /\ UNCHANGED readVars
    /\ UNCHANGED clientVars

(* the list the template tag of get_user_announcements hands to a page *)
UserAnnouncementsList(user) ==
    /\ shown' = [view |-> "user_list", user |-> user,
                 announcements |-> get_user_announcements(user)]
    /\ UNCHANGED <<poll, now, photoReq>>
    /\ UNCHANGED annVars
    /\ UNCHANGED taskVars
    /\ UNCHANGED readVars
    /\ UNCHANGED clientVars

(* the page latest_announcement renders *)
LatestAnnouncementPage(user) ==
    /\ shown' = [view |-> "latest", user |-> user, announcements |-> latest_announcement(user)]
    /\ UNCHANGED <<poll, now, photoReq>>
    /\ UNCHANGED annVars
    /\ UNCHANGED taskVars
    /\ UNCHANGED readVars
    /\ UNCHANGED clientVars

(* the rest of the state of the announcement specifications *)
NoTaskWork ==
    /\ NoPages
    /\ task = OpenSurvey
    /\ task0 = task
    /\ req = [u \in Users |-> Idle]
    /\ answers = EmptyBag
    /\ now = StartTime
    /\ readStatus = {}
    /\ markReq = [p \in MarkCallers |-> NoMark]
    /\ nStarted = 0
    /\ nSubmitted = 0
    /\ completedBy = NoUser
    /\ markedOk = {}
    /\ markFailed = {}
    /\ clients = OneDirectory
    /\ resolved = NoResolution
    /\ photoReq = [u \in PhotoUsers |-> NoPhotoRequest]

(* one announcement to everyone, nobody has read it yet *)
InitAnn ==
    /\ announcements = Posted(<<[target_audience |-> "ALL_USERS", recipients |-> {},
                                requires_acknowledgment |-> TRUE]>>)
    /\ annStatus = {}
    /\ annReq = [c \in Connections |-> NoAnnRequest]
    /\ NoTaskWork

NextAnn ==
    \/ \E c \in Connections, user \in AnnReaders, announcement \in 1..MaxAnnouncements,
          acknowledge \in AcknowledgeValues :
          AnnReadGet(c, user, announcement, acknowledge)
    \/ \E c \in Connections : AnnReadCreate(c)
    \/ \E c \in Connections : AnnReadFinish(c)
    \/ Tick

SpecAnn == InitAnn /\ [][NextAnn]_vars

(* The lists of the announcements: the user whose read status rows exist *)
ListReader == "emp1"

(* the rows the read requests of the user have left: for some of the        *)
(* announcements a row, acknowledged or not                                 *)
LeftBy(user, rows, acknowledged) ==
    {NewReadStatus(id, user, StartTime) : id \in rows \ acknowledged}
    \cup {[NewReadStatus(id, user, StartTime) EXCEPT !.acknowledged = TRUE] :
              id \in acknowledged}

InitAnnList ==
    /\ \E n \in 0..MaxAnnouncements : \E kinds \in [1..n -> AnnouncementKinds] :
          /\ announcements = Posted(kinds)
          /\ \E rows \in SUBSET (1..n) : \E acknowledged \in SUBSET rows :
                annStatus = LeftBy(ListReader, rows, acknowledged)
    /\ annReq = [c \in Connections |-> NoAnnRequest]
    /\ NoTaskWork

NextAnnList ==
    \/ \E user \in Users : AllAnnouncementsPage(user)
    \/ \E user \in Users : UserAnnouncementsList(user)
    \/ \E user \in Users : LatestAnnouncementPage(user)

SpecAnnList == InitAnnList /\ [][NextAnnList]_vars

----------------------------------------------------------------------------
(* The claims *)

(* C1: for a Survey task with target_count = T > 0 and current_count 0, after *)
(* N successful submissions served one after another and no other edit,      *)
(* current_count = N, and if N >= T the status is ON_CHECK, unless the status *)
(* was COMPLETED already (then it stays COMPLETED).  Checked under SpecSeq.   *)
C1_CountFollowsSubmissions ==
    (task0.task_type = SURVEY /\ task0.target_count > 0 /\ task0.current_count = 0
        /\ completedBy = NoUser)
    => /\ task.current_count = nSubmitted
       /\ (nSubmitted >= task0.target_count
            => task.status = IF task0.status = COMPLETED THEN COMPLETED ELSE ON_CHECK)

C1_Witness ==
    /\ task0.task_type = SURVEY /\ task0.status = SENT /\ task0.target_count = 2
    /\ completedBy = NoUser
    /\ nSubmitted = 2 /\ task.current_count = 2
    /\ task.status = ON_CHECK /\ task.is_active

(* C2: in every behaviour of interleaving submissions and mark-completed     *)
(* requests the stored current_count never decreases from one state to the   *)
(* next.  The code violates it: a save writes back the count fetched earlier. *)
C2_CountNeverDecreases == [][task'.current_count >= task.current_count]_vars

(* C3: the increment of current_count is a read-modify-write: the save of a  *)
(* submission stores the count the request fetched plus one, whatever the row *)
(* holds by then, so two submissions that both fetched the row before either *)
(* saved both succeed and the count grows by one only.                       *)
C3_ReadModifyWrite ==
    [][\A u \in Users :
         (req[u].pc = "answered" /\ req'[u].pc = "idle")
         => task'.current_count = req[u].task.current_count + 1]_vars

(* two submissions have succeeded and stored their answers, the count grew by one *)
C3_Witness ==
    /\ nSubmitted = 2
    /\ BagCardinality(answers) = 2 * NumQuestions
    /\ task.current_count = task0.current_count + 1
    /\ completedBy = NoUser
    /\ InFlight = {}

(* C4: a task is visible to every Moderator; to an Employee iff it is active, *)
(* its status is SENT, REWORK or ON_CHECK and it is assigned to that employee *)
(* or to nobody; to no other role.  The task list and the task detail both   *)
(* show exactly these tasks.                                                 *)
C4_Visibility ==
    \A u \in Users :
        LET visible ==
                \/ Role(u) = MODERATOR
                \/ /\ Role(u) = EMPLOYEE
                   /\ task.is_active
                   /\ task.status \in {SENT, REWORK, ON_CHECK}
                   /\ task.assigned_to \in {u, NoUser}
        IN  /\ can_be_viewed_by(task, u) = visible
            /\ TaskListShows(task, u) = visible
            /\ TaskDetailShows(task, u) = visible
            /\ (Role(u) = EMPLOYEE /\ (task.status \in {DRAFT, COMPLETED} \/ ~task.is_active)
                  => ~TaskListShows(task, u) /\ ~TaskDetailShows(task, u))

C4_Witness ==
    /\ nSubmitted >= 1
    /\ task.status = ON_CHECK /\ task.is_active /\ task.assigned_to = "emp1"
    /\ TaskListShows(task, "emp1") /\ ~TaskListShows(task, "emp2")
    /\ TaskDetailShows(task, "mod") /\ ~TaskDetailShows(task, "cli")

(* C5: once the status of the task is COMPLETED, no submission and no       *)
(* mark-completed request, by any user and in any order, changes it to       *)
(* anything else.  The code violates it: the save of a submission that       *)
(* fetched the task before it was completed writes the fetched status back.  *)
C5_CompletedIsTerminal == [][task.status = COMPLETED => task'.status = COMPLETED]_vars

(* C6, as claimed: every change of status made by a submission or by         *)
(* mark-completed goes along an edge of Draft -> Sent -> {Rework, OnCheck}   *)
(* -> Completed, with Rework <-> OnCheck.                                    *)
C6_LifecycleEdges ==
    [][task'.status # task.status
       => <<task.status, task'.status>> \in
             {<<DRAFT, SENT>>, <<SENT, REWORK>>, <<SENT, ON_CHECK>>,
              <<REWORK, ON_CHECK>>, <<ON_CHECK, REWORK>>,
              <<REWORK, COMPLETED>>, <<ON_CHECK, COMPLETED>>}]_vars

(* C6, amended: the status of the stored task changes only when a request   *)
(* saves; a submission stores the status it fetched, or ON_CHECK when it     *)
(* fetched DRAFT, SENT or REWORK; mark-completed stores COMPLETED, whatever  *)
(* the status was (DRAFT and SENT included), or nothing.                     *)
C6_ObservedEdges ==
    [][/\ task'.status # task.status
          => \E u \in Users : req[u].pc # "idle" /\ req'[u].pc = "idle"
       /\ \A u \in Users :
            /\ (req[u].pc = "answered" /\ req'[u].pc = "idle")
               => \/ task'.status = req[u].task.status
                  \/ /\ req[u].task.status \in {DRAFT, SENT, REWORK}
                     /\ task'.status = ON_CHECK
            /\ (req[u].kind = "complete" /\ req'[u].pc = "idle")
               => task'.status \in {task.status, COMPLETED}]_vars

(* a moderator has completed a draft *)
C6_Witness ==
    /\ task0.status = DRAFT
    /\ completedBy = "mod"
    /\ task.status = COMPLETED

(* C7: the save of a successful submission on a Survey task stores the       *)
(* is_active it fetched, and the status it fetched unless target_count > 0,  *)
(* the incremented current_count >= target_count and the status is not       *)
(* COMPLETED, in which case it stores ON_CHECK; with target_count = 0 it     *)
(* never stores another status.                                              *)
C7_SubmissionFrame ==
    [][\A u \in Users :
         (req[u].pc = "answered" /\ req'[u].pc = "idle")
         => LET t == req[u].task
            IN  /\ task'.is_active = t.is_active
                /\ task'.status =
                     IF t.target_count > 0 /\ t.current_count + 1 >= t.target_count
                        /\ t.status # COMPLETED
                     THEN ON_CHECK ELSE t.status
                /\ (t.target_count = 0 => task'.status = t.status)]_vars

(* two submissions on a survey without target have left status and is_active alone *)
C7_Witness ==
    /\ task0.target_count = 0 /\ task0.status = SENT
    /\ nSubmitted >= 2
    /\ completedBy = NoUser
    /\ task.status = SENT /\ task.is_active

(* C8: a submit-response request on an EquipmentPhoto or SimplePhoto task,   *)
(* sent with a valid form and a client by a user who may view the task, ends *)
(* with the task ON_CHECK and inactive.  The code answers it with Http404.   *)
C8_PhotoSubmissionClosesTask ==
    [][\A u \in Users :
         (/\ req[u].kind = "submit" /\ req'[u].pc = "idle"
          /\ req[u].task.task_type \in {EQUIPMENT_PHOTO, SIMPLE_PHOTO}
          /\ can_be_viewed_by(req[u].task, u)
          /\ req[u].data.valid /\ req[u].data.sel.found)
         => task'.status = ON_CHECK /\ ~task'.is_active]_vars

(* C9, as claimed: mark-completed sets COMPLETED and inactive when sent by a *)
(* Moderator or by the Employee the task is assigned to, and changes nothing *)
(* when sent by anybody else.                                                *)
C9_MarkCompleted ==
    [][\A u \in Users :
         (req[u].kind = "complete" /\ req'[u].pc = "idle")
         => IF Role(u) = MODERATOR \/ (Role(u) = EMPLOYEE /\ req[u].task.assigned_to = u)
            THEN task'.status = COMPLETED /\ ~task'.is_active
            ELSE task' = task]_vars

(* C9, amended: the assigned Employee completes the task only while the task *)
(* is visible to him (active, status SENT, REWORK or ON_CHECK); on a DRAFT,  *)
(* COMPLETED or inactive task his request changes nothing, like that of any  *)
(* other non-moderator.                                                      *)
C9_MarkCompletedIfVisible ==
    [][\A u \in Users :
         (req[u].kind = "complete" /\ req'[u].pc = "idle")
         => LET t == req[u].task
            IN  IF \/ Role(u) = MODERATOR
                   \/ /\ Role(u) = EMPLOYEE /\ t.assigned_to = u
                      /\ t.is_active /\ t.status \in {SENT, REWORK, ON_CHECK}
                THEN task'.status = COMPLETED /\ ~task'.is_active
                ELSE task' = task]_vars

(* the assigned employee has completed the task *)
C9_Witness ==
    /\ completedBy = "emp1"
    /\ task0.assigned_to = "emp1"
    /\ task.status = COMPLETED /\ ~task.is_active
    /\ InFlight = {}

(* C10: after markAsRead has answered success for a group key, a stored row  *)
(* carries exactly that key, date included, and getGroupedAnswers reports    *)
(* the group with isRead = true and isNew = false, whatever the date.  The   *)
(* code stores the row under the date of the call.                           *)
C10_MarkedGroupIsRead ==
    \A k \in markedOk :
        /\ \E r \in readStatus : RowKey(r) = k
        /\ \A g \in GroupedAnswers : g.id = k => g.isRead /\ ~g.isNew

(* C11: a markAsRead call for a key for which an earlier call has answered   *)
(* success (the second of two calls in succession) answers success too and   *)
(* leaves exactly one stored row with that key, whose read_at is the time of *)
(* this call and whose read_by is its caller.  The code violates it for a    *)
(* key whose date is not the local date of the first call: the second call   *)
(* tries to insert the same row again and answers status 500.                *)
C11_MarkTwice ==
    [][\A p \in MarkCallers :
         (markReq[p].pc = "looked" /\ markReq'[p].pc = "idle" /\ markReq[p].after)
         => LET k == markReq[p].key
                rows == {r \in readStatus' : RowKey(r) = k}
            IN  /\ k \notin markFailed'
                /\ Cardinality(rows) = 1
                /\ \A r \in rows : r.read_at = now /\ r.read_by = p]_vars

(* C12: when two markAsRead calls for one key race (this call looked the row *)
(* up and found none, another call for the key answered success before this  *)
(* one writes), the store never holds two rows with the key and this call,   *)
(* the loser, updates the winner's row and answers success.  The code        *)
(* answers the loser with status 500 when the key's date is not the local    *)
(* date of the calls.                                                        *)
C12_MarkRace ==
    [][\A p \in MarkCallers :
         (/\ markReq[p].pc = "looked" /\ markReq'[p].pc = "idle"
          /\ ~markReq[p].found /\ ~markReq[p].after
          /\ markReq[p].key \in markedOk)
         => LET k == markReq[p].key
                rows == {r \in readStatus' : RowKey(r) = k}
            IN  /\ k \notin markFailed'
                /\ Cardinality(rows) = 1
                /\ \A r \in rows : r.read_by = p]_vars

(* C13: every successful submission to a Survey task creates exactly one new *)
(* SurveyAnswer for each question of the task and changes or removes no      *)
(* stored answer: the number of stored answers is the number of questions    *)
(* times the number of submissions that have saved their form, every step    *)
(* keeps the stored answers, and the step that saves a form adds one answer  *)
(* per question, of the submitting user.                                     *)
C13_OneAnswerPerQuestion ==
    /\ [](BagCardinality(answers) =
            NumQuestions * (nSubmitted + Cardinality({u \in Users : req[u].pc = "answered"})))
    /\ [][/\ answers \sqsubseteq answers'
          /\ \A u \in Users :
               (req[u].pc = "loaded" /\ req'[u].pc = "answered")
               => \A q \in Questions :
                    LET new == {a \in BagToSet(answers') :
                                  /\ a.question = q /\ a.user = u
                                  /\ CopiesIn(a, answers') > CopiesIn(a, answers)}
                    IN  /\ Cardinality(new) = 1
                        /\ \A a \in new : CopiesIn(a, answers') = CopiesIn(a, answers) + 1]_vars

(* two submissions have succeeded: two answers for every question *)
C13_Witness ==
    /\ nSubmitted = 2
    /\ InFlight = {}
    /\ \A q \in Questions :
         BagCardinality([a \in {b \in BagToSet(answers) : b.question = q} |->
                            CopiesIn(a, answers)]) = 2

(* C14: for a task with no fixed client the submission takes the client with *)
(* the id given in the POST if it exists; otherwise the client whose name    *)
(* equals the given name ignoring case; otherwise the clients whose name     *)
(* contains the given name ignoring case: one is accepted, none fails with   *)
(* ClientNotFound, several fail with AmbiguousClient.  The code ignores the  *)
(* case of ASCII letters only: a Cyrillic name is matched with its case.    *)
C14_ResolutionOrder ==
    (/\ resolved # NoResolution /\ task.client = NoClient
     /\ resolved.data.name # <<>> /\ resolved.data.id # BadId)
    => LET Lower(ch) == IF ch = "A" THEN "a" ELSE IF ch = "ZH" THEN "zh" ELSE ch
           LowerName(n) == [i \in 1..Len(n) |-> Lower(n[i])]
           given == LowerName(resolved.data.name)
           byId  == {c \in DOMAIN clients : c = resolved.data.id}
           equal == {c \in DOMAIN clients : LowerName(clients[c]) = given}
           part  == {c \in DOMAIN clients :
                       \E i \in 0..(Len(clients[c]) - Len(given)) :
                           SubSeq(LowerName(clients[c]), i + 1, i + Len(given)) = given}
           out   == resolved.out
       IN  IF byId # {} THEN out.kind = "ok" /\ out.client \in byId
           ELSE IF Cardinality(equal) = 1 THEN out.kind = "ok" /\ out.client \in equal
           ELSE IF Cardinality(equal) > 1 THEN TRUE
           ELSE IF Cardinality(part) = 1 THEN out.kind = "ok" /\ out.client \in part
           ELSE IF part = {} THEN out.kind = "ClientNotFound"
           ELSE out.kind = "AmbiguousClient"

(* C15: for every client directory, including one where several clients     *)
(* have the same name up to case, and every client selector, the submission  *)
(* ends with success or with a failure reported to the user as a message; no *)
(* other failure leaves the request.  The code lets MultipleObjectsReturned  *)
(* of the look-up by equal name escape.                                      *)
C15_OutcomesReported ==
    resolved # NoResolution
    => \/ resolved.out.kind = "ok"
       \/ ReportedAsMessage(resolved.out)

(* C16: when form.save() fails because the client cannot be resolved (no     *)
(* client selected, ClientNotFound or AmbiguousClient) the request ends, no  *)
(* SurveyAnswer and no photo is created (the photos are part of the stored   *)
(* answers) and the task row, its current_count, status and is_active        *)
(* included, is unchanged; no success is counted.                            *)
C16_FailedSubmissionChangesNothing ==
    [][\A u \in Users :
         (/\ req[u].pc = "loaded" /\ req[u].kind = "submit" /\ req'[u].pc # "loaded"
          /\ MaySubmit(req[u].task, u) /\ req[u].data.valid
          /\ SelectorOutcome(req[u].task, req[u].data.sel).kind
               \in {"NoClientSelected", "ClientNotFound", "AmbiguousClient"})
         => /\ req'[u].pc = "idle"
            /\ answers' = answers
            /\ task' = task
            /\ nSubmitted' = nSubmitted]_vars

(* a submission has failed with AmbiguousClient; nothing is stored *)
C16_Witness ==
    /\ resolved.out.kind = "AmbiguousClient"
    /\ InFlight = {}
    /\ nStarted = 1
    /\ answers = EmptyBag
    /\ task = task0

C18_AtMostTenPhotos == \A a \in BagToSet(answers) : a.photos <= PhotoLimit

(* C19: a getGroupedAnswers call, with or without the userId filter, returns *)
(* exactly one group per distinct key (task, client, user, calendar date of  *)
(* created_at) among the answers it selects, and every selected answer is in *)
(* the group of its key: answers of one day are one group, answers of        *)
(* different days are different groups.                                      *)
C19_OneGroupPerKey ==
    \A f \in {NoUser} \cup GroupSubmitters :
        LET res == getGroupedAnswers(f)
            rows == {a \in BagToSet(answers) : f = NoUser \/ a.user = f}
            Key(a) == <<TaskId, a.client, a.user, a.created_at \div UnitsPerDay>>
            keys == {Key(a) : a \in rows}
        IN  /\ {res[i].id : i \in DOMAIN res} = keys
            /\ Len(res) = Cardinality(keys)
            /\ \A i \in DOMAIN res :
                 Len(res[i].answers) =
                   BagCardinality([a \in {x \in rows : Key(x) = res[i].id} |-> answers[a]])

(* three submissions of emp1, one on day 0 and two at different times of day 1: *)
(* two groups, the later one with the answers of two submissions               *)
C19_Witness ==
    LET res == getGroupedAnswers("emp1")
    IN  /\ Cardinality({a.created_at : a \in BagToSet(answers)}) = 3
        /\ Len(res) = 2
        /\ Len(res[1].answers) = 2 * NumQuestions
        /\ Len(res[2].answers) = NumQuestions

(* C20: a group is reported isNew exactly when its timestamp, the created_at *)
(* of its most recent answer, is less than 24 hours before the call and no   *)
(* read-status row with the group's key has read_at set; a read group is     *)
(* never isNew.                                                              *)
C20_IsNew ==
    LET res == getGroupedAnswers(NoUser)
    IN  \A i \in DOMAIN res :
          LET k == res[i].id
              stamps == {a.created_at : a \in {b \in BagToSet(answers) :
                            <<TaskId, b.client, b.user, b.created_at \div UnitsPerDay>> = k}}
              read == \E r \in readStatus :
                         /\ <<r.task, r.client, r.user, r.date_created>> = k
                         /\ r.read_at # None
          IN  /\ res[i].dateCreated \in stamps
              /\ \A t \in stamps : t <= res[i].dateCreated
              /\ res[i].isNew <=> (now - res[i].dateCreated < NewWindow /\ ~read)
              /\ res[i].isRead <=> read
              /\ res[i].isRead => ~res[i].isNew

(* one call reports a new group, an unread group that is 24 hours old, and a *)
(* read group that is 12 hours old                                            *)
C20_Witness ==
    LET res == getGroupedAnswers(NoUser)
    IN  \E i, j, k \in DOMAIN res :
          /\ res[i].isNew /\ ~res[i].isRead
          /\ ~res[j].isNew /\ ~res[j].isRead /\ now - res[j].dateCreated = NewWindow
          /\ ~res[k].isNew /\ res[k].isRead /\ now - res[k].dateCreated < NewWindow

(* C27: when the moderator's mark-completed has saved the task while an      *)
(* employee's submission that fetched the task earlier is still in flight,   *)
(* the submission's save leaves the task COMPLETED and inactive.  The code   *)
(* violates it: task.save() writes back the status and is_active it fetched. *)
C27_CompletionSurvivesSubmission ==
    [][\A u \in Users :
         (/\ Role(u) = EMPLOYEE
          /\ req[u].pc = "answered" /\ req'[u].pc = "idle"
          /\ req[u].task.status # COMPLETED
          /\ completedBy = "mod" /\ task.status = COMPLETED /\ ~task.is_active
          /\ \A v \in Users \ {u} : req[v].pc = "idle")
         => task'.status = COMPLETED /\ ~task'.is_active]_vars

(* C28: a step of an employee's or a client user's submit-response request   *)
(* changes the stored answers or the task row only if the task the request   *)
(* fetched is a survey, is active, has status SENT, REWORK or ON_CHECK and   *)
(* is assigned to the requesting employee or to nobody; otherwise the        *)
(* request ends at its first step and nothing is changed.                    *)
C28_SubmissionGuard ==
    [][\A u \in Users :
         (Role(u) # MODERATOR /\ req[u].kind = "submit" /\ req'[u] # req[u])
         => LET t == req[u].task
                allowed == /\ Role(u) = EMPLOYEE
                           /\ t.task_type = SURVEY
                           /\ t.is_active
                           /\ t.status \in {SENT, REWORK, ON_CHECK}
                           /\ t.assigned_to \in {u, NoUser}
            IN  /\ (answers' # answers \/ task' # task) => allowed
                /\ ~allowed => /\ req'[u].pc = "idle"
                               /\ answers' = answers
                               /\ task' = task
                               /\ nSubmitted' = nSubmitted]_vars

(* an employee's submission on an unassigned survey has been saved, and a    *)
(* second request has ended without a save                                   *)
C28_Witness ==
    /\ nStarted = 2 /\ nSubmitted = 1 /\ InFlight = {}
    /\ completedBy = NoUser
    /\ task0.status = SENT /\ task0.assigned_to = NoUser
    /\ task.current_count = 1
    /\ \A a \in BagToSet(answers) : a.user = "emp2"

(* C29: starting from a task that is not COMPLETED, in every state reached   *)
(* by interleaved submissions and mark-completed requests a COMPLETED task   *)
(* is inactive.                                                              *)
C29_CompletedIsInactive ==
    task0.status # COMPLETED => (task.status = COMPLETED => ~task.is_active)

(* an active task has been completed after a submission on it *)
C29_Witness ==
    /\ task0.status = SENT /\ task0.is_active
    /\ nSubmitted >= 1
    /\ completedBy # NoUser
    /\ task.status = COMPLETED /\ ~task.is_active

(* C30: when the requests are served one at a time and none is in flight,    *)
(* the number of stored answers of each question of the survey equals the    *)
(* task's current_count.                                                     *)
C30_AnswersPerQuestion ==
    (task0.task_type = SURVEY /\ InFlight = {})
    => \A q \in Questions :
         BagCardinality([a \in {b \in BagToSet(answers) : b.question = q} |->
                            CopiesIn(a, answers)]) = task.current_count

(* three submissions have been saved one after the other *)
C30_Witness ==
    /\ task0.task_type = SURVEY
    /\ InFlight = {}
    /\ task.current_count = 3
    /\ BagCardinality(answers) = 3 * NumQuestions

(* C22: the completion percentage shown for a survey task is                 *)
(* min(100, floor(current_count * 100 / target_count)) when target_count > 0 *)
(* and 0 when target_count = 0, an integer in 0..100.  The code computes it  *)
(* in floating point and is one too low for 29 of 50.                        *)
C22_CompletionPercentage ==
    shown.view \in {"task_detail", "statistics"}
    => LET c == task.current_count
           t == task.target_count
       IN  /\ shown.value \in 0..100
           /\ shown.value = IF t > 0
                            THEN (IF (c * 100) \div t > 100 THEN 100 ELSE (c * 100) \div t)
                            ELSE 0

(* C21: for a question with total > 0 answers every choice percentage of the *)
(* statistics page is a multiple of 0.5 and the percentages of the choices   *)
(* of the question sum to at most 100; stated here for a RADIO question,     *)
(* where every answer selects one choice.  The code rounds each percentage   *)
(* to the nearest half, so three choices with one answer each show 33.5      *)
(* three times.                                                              *)
C21_PercentagesSum ==
    (shown.view = "survey_statistics" /\ shown.total_answers > 0
        /\ poll.question_type = RADIO)
    => /\ \A id \in ChoiceIds : IsHalfMultiple(shown.choice_stats[id].percentage)
       /\ Halves(shown.choice_stats[<<1>>].percentage)
            + Halves(shown.choice_stats[<<2>>].percentage)
            + Halves(shown.choice_stats[<<1, 2>>].percentage) <= 2 * 100


(* C25: the read_at of the read status of (announcement, user) is the time   *)
(* of the request that inserted the row, no later request changes it or      *)
(* removes the row, and there is never more than one row per                 *)
(* (announcement, user).                                                     *)
C25_ReadAtIsKept ==
    /\ [](\A r1 \in annStatus : \A r2 \in annStatus :
            (r1.announcement = r2.announcement /\ r1.user = r2.user) => r1 = r2)
    /\ [][\A r \in annStatus :
            \E r2 \in annStatus' :
                /\ r2.announcement = r.announcement
                /\ r2.user = r.user
                /\ r2.read_at = r.read_at]_vars
    /\ [][\A r2 \in annStatus' :
            StatusRows(annStatus, r2.announcement, r2.user) = {}
            => /\ r2.read_at = now
               /\ \E c \in Connections :
                     /\ annReq[c].pc = "missed"
                     /\ annReq[c].announcement = r2.announcement
                     /\ annReq[c].user = r2.user
                     /\ annReq'[c].pc = "have"
                     /\ annReq'[c].created]_vars

(* a later plain read has fetched the row that an earlier request inserted   *)
(* at an earlier time and an acknowledge request has saved since             *)
C25_Witness ==
    \E c \in Connections : \E r \in annStatus :
        /\ annReq[c].pc = "have"
        /\ ~annReq[c].created
        /\ ~Truthy(annReq[c].acknowledge)
        /\ annReq[c].read_status = r
        /\ r.acknowledged
        /\ r.read_at < now
        /\ \A d \in Connections \ {c} : annReq[d].pc = "idle"


(* C24: no step of a read request turns the acknowledged of a read status    *)
(* from true to false, and acknowledged turns true only in the last step of  *)
(* a request of that user for that announcement that carries the acknowledge *)
(* parameter.                                                                *)
C24_AcknowledgedOneWay ==
    [][/\ \A r \in annStatus :
            r.acknowledged
            => \E r2 \in annStatus' :
                   /\ r2.announcement = r.announcement
                   /\ r2.user = r.user
                   /\ r2.acknowledged
       /\ \A r2 \in annStatus' :
            (r2.acknowledged
             /\ \A r \in StatusRows(annStatus, r2.announcement, r2.user) : ~r.acknowledged)
            => \E c \in Connections :
                   /\ annReq[c].pc = "have"
                   /\ Truthy(annReq[c].acknowledge)
                   /\ annReq[c].announcement = r2.announcement
                   /\ annReq[c].user = r2.user
                   /\ annReq'[c].pc = "idle"]_vars


(* C23: the all-announcements page and the user list show a user exactly the *)
(* announcements to everyone (ALL_USERS, ALL_EMPLOYEES), those to the        *)
(* moderators if the user is a moderator, and the CUSTOM ones the user is a  *)
(* recipient of, each once; the latest-announcement page shows the newest of *)
(* these, or nothing when there is none.                                     *)
C23_VisibleAnnouncements ==
    LET user == shown.user
        all == {announcements[i] : i \in 1..Len(announcements)}
        visible == {a \in all :
                      \/ a.target_audience \in {"ALL_USERS", "ALL_EMPLOYEES"}
                      \/ a.target_audience = "MODERATORS" /\ Role(user) = MODERATOR
                      \/ a.target_audience = "CUSTOM" /\ user \in a.recipients}
        list == shown.announcements
    IN  /\ shown.view \in {"all", "user_list"}
           => /\ {list[i].id : i \in 1..Len(list)} = {a.id : a \in visible}
              /\ Len(list) = Cardinality(visible)
        /\ shown.view = "latest"
           => IF visible = {} THEN list = <<>>
              ELSE /\ Len(list) = 1
                   /\ \E a \in visible :
                         /\ a.id = list[1].id
                         /\ \A b \in visible : b.created_at <= a.created_at

(* the list of emp2 holds a CUSTOM announcement to emp1 and emp2 and leaves  *)
(* out an announcement to the moderators                                     *)
C23_Witness ==
    /\ shown.view = "user_list"
    /\ shown.user = "emp2"
    /\ \E i \in 1..Len(announcements) : \E j \in 1..Len(announcements) :
          /\ announcements[i].target_audience = "CUSTOM"
          /\ announcements[i].recipients = {"emp1", "emp2"}
          /\ announcements[j].target_audience = "MODERATORS"
          /\ \E k \in 1..Len(shown.announcements) : shown.announcements[k].id = i
          /\ \A k \in 1..Len(shown.announcements) : shown.announcements[k].id # j

(* C26: in the list get_user_announcements returns no acknowledged           *)
(* announcement comes before an unacknowledged one, within the acknowledged  *)
(* and within the unacknowledged ones a newer one comes before an older one, *)
(* so an unacknowledged announcement that requires acknowledgment comes      *)
(* before every acknowledged one.                                            *)
C26_UnacknowledgedFirst ==
    shown.view = "user_list"
    => LET list == shown.announcements
       IN  \A i \in 1..Len(list) : \A j \in 1..Len(list) :
               i < j
               => /\ ~(list[i].is_acknowledged /\ ~list[j].is_acknowledged)
                  /\ list[i].is_acknowledged = list[j].is_acknowledged
                     => list[i].created_at >= list[j].created_at
                  /\ (list[j].requires_acknowledgment /\ ~list[j].is_acknowledged)
                     => ~list[i].is_acknowledged

(* the list of emp1 starts with an older announcement that requires          *)
(* acknowledgment and is not acknowledged, a newer acknowledged one follows  *)
C26_Witness ==
    /\ shown.view = "user_list"
    /\ shown.user = ListReader
    /\ Len(shown.announcements) = 2
    /\ shown.announcements[1].requires_acknowledgment
    /\ ~shown.announcements[1].is_acknowledged
    /\ shown.announcements[2].is_acknowledged
    /\ shown.announcements[1].created_at < shown.announcements[2].created_at

=============================================================================
